---------------------------- MODULE Spec2Model ----------------------------
(***************************************************************************)
(* Model of nlp/builder.py: DatasetBuilder.download_and_prepare, its       *)
(* incomplete_dir staging scope and DatasetBuilder._download_and_prepare,  *)
(* over a file system holding, for each dataset identity, the cache        *)
(* directory <root>/<name>/<config>/<version> ("target") and its sibling   *)
(* "<target>.incomplete" ("staging"); GeneratorBasedBuilder._prepare_split *)
(* record by record; and DatasetBuilder._create_builder_config on the      *)
(* declared configs of a builder type.                                     *)
(***************************************************************************)
EXTENDS Naturals, Sequences, FiniteSets

\* ------------------------------------------------------------ bounds

\* Calls of download_and_prepare made in one behaviour (all callers together).
MaxCalls == 3

\* Records one run of _generate_examples yields at most.
MaxRecords == 2

\* Builders constructed from one builder type in one behaviour.
MaxBuilders == 2

\* Calls made in a behaviour of two concurrent callers.
MaxParallelCalls == 2

\* ------------------------------------------------------------ values

Callers == {"c1", "c2"}

\* The caller the sequential specification Spec runs.
Sequential == {"c1"}

Identities == {"toy", "other"}

\* builder.py:42-44
REUSE_DATASET_IF_EXISTS == "reuse_dataset_if_exists"
REUSE_CACHE_IF_EXISTS == "reuse_cache_if_exists"
FORCE_REDOWNLOAD == "force_redownload"
Modes == {REUSE_DATASET_IF_EXISTS, REUSE_CACHE_IF_EXISTS, FORCE_REDOWNLOAD}

\* download_mode as the caller passes it: a mode, or None.
ModeArgs == Modes \cup {"None"}

\* builder.py:298  GenerateMode(download_mode or REUSE_DATASET_IF_EXISTS)
GenerateMode(m) == IF m = "None" THEN REUSE_DATASET_IF_EXISTS ELSE m

\* builder.py:384  verify_infos = not save_infos and not ignore_verifications
VerifyInfos(save_infos, ignore_verifications) ==
    (~save_infos) /\ (~ignore_verifications)

\* Optional values: None is <<>>, a present value x is <<x>>.
None == <<>>
Some(x) == <<x>>

\* The split lists a builder's _split_generators may declare.
DeclaredSplits ==
    { <<"train">>, <<"train", "test">>, <<"train", "all">>, <<"All", "train">> }

\* str.lower() on the split names of the model.
Lower(s) == IF s \in {"all", "All", "ALL"} THEN "all" ELSE s

\* builder.py:428  str(split_generator.split_info.name).lower() == "all"
IsReserved(name) == Lower(name) = "all"

\* (size, checksum) records the download manager may observe.
Checksums == {"abc", "xyz"}

\* The keys _generate_examples may yield; a record is named by its key.
Keys == {"k1", "k2"}

\* What one run of _generate_examples yields: the keys of its records, in
\* order.  Nothing keeps a producer from yielding a key twice.
Producers(n) == UNION { [1..m -> Keys] : m \in 0..n }

\* The bytes the writer reports for the encoded record of key k.
RecordBytes(k) == IF k = "k1" THEN 1 ELSE 2

\* SplitInfo: one entry of a SplitDict.
SplitInfo(name, num_examples, num_bytes) ==
    [name |-> name, num_examples |-> num_examples, num_bytes |-> num_bytes]

\* SplitGenerator(name=...).split_info as _split_generators hands it over,
\* with the number of examples the builder expects the split to hold.
Stub(name, expected) == SplitInfo(name, expected, 0)

\* The SplitGenerators of a declared list of names.
Stubs(names, expected) ==
    [i \in 1..Len(names) |-> Stub(names[i], expected)]

\* DatasetInfo: the split table, the download checksums and the sizes.
EmptyInfo ==
    [splits |-> None, download_checksums |-> None, download_size |-> None,
     dataset_size |-> None, size_in_bytes |-> None]

\* A dataset_infos.json exported beside the builder module (builder.py:147-149).
ExportedInfo ==
    [splits |-> Some(<<SplitInfo("train", 1, 1), SplitInfo("test", 1, 1)>>),
     download_checksums |-> Some("abc"), download_size |-> Some(0),
     dataset_size |-> Some(2), size_in_bytes |-> Some(2)]

\* The metadata of the artifact the remote registry holds.
PrebuiltInfo == ExportedInfo

\* The generation strategies (builder.py:566, 683).
GeneratorBasedBuilder == "GeneratorBasedBuilder"
BeamBasedBuilder == "BeamBasedBuilder"

\* What a behaviour is made of: the builder class and the beam_runner and
\* beam_options it was constructed with (given or not), and the sets its
\* inputs are drawn from: the arguments of download_and_prepare, the splits
\* _split_generators declares, the checksums the download manager records,
\* the producers of _generate_examples, the counts the SplitGenerators
\* expect, the sizes the download manager reports, and the number of calls
\* made.
CallInputs ==
    [builder |-> GeneratorBasedBuilder, beam_runner |-> FALSE,
     beam_options |-> FALSE,
     modes |-> ModeArgs, save_infos |-> BOOLEAN,
     ignore_verifications |-> BOOLEAN, splits |-> DeclaredSplits,
     checksums |-> Checksums,
     producers |-> {<<"k1">>}, expected |-> {0}, downloaded_size |-> {0},
     calls |-> MaxCalls]

\* The inputs of one call seen record by record.
RecordInputs ==
    [builder |-> GeneratorBasedBuilder, beam_runner |-> FALSE,
     beam_options |-> FALSE,
     modes |-> ModeArgs, save_infos |-> BOOLEAN,
     ignore_verifications |-> BOOLEAN, splits |-> DeclaredSplits,
     checksums |-> Checksums,
     producers |-> Producers(MaxRecords), expected |-> {0, 1},
     downloaded_size |-> {0, 1}, calls |-> 1]

\* Two calls made by two builders at once.
ParallelInputs ==
    [builder |-> GeneratorBasedBuilder, beam_runner |-> FALSE,
     beam_options |-> FALSE,
     modes |-> Modes, save_infos |-> {TRUE},
     ignore_verifications |-> {FALSE}, splits |-> {<<"train">>},
     checksums |-> {"abc"},
     producers |-> {<<"k1">>}, expected |-> {0}, downloaded_size |-> {0},
     calls |-> MaxParallelCalls]

\* builder.py:686-690: one call of a BeamBasedBuilder constructed with or
\* without a beam_runner and with or without beam_options.
BeamInputs ==
    { [builder |-> BeamBasedBuilder, beam_runner |-> r, beam_options |-> o,
       modes |-> ModeArgs, save_infos |-> BOOLEAN,
       ignore_verifications |-> BOOLEAN, splits |-> DeclaredSplits,
       checksums |-> Checksums,
       producers |-> {<<"k1">>, <<"k1", "k2">>}, expected |-> {0},
       downloaded_size |-> {0, 1}, calls |-> 1] : r \in BOOLEAN,
                                                  o \in BOOLEAN }

\* A directory: whether it exists, its artifact files <<split, writer>> and
\* its metadata record.  Writer 0 is the remote registry, n > 0 the n-th call.
NoDir == [exists |-> FALSE, arts |-> {}, meta |-> None]
EmptyDir == [exists |-> TRUE, arts |-> {}, meta |-> None]
PrebuiltDir ==
    [exists |-> TRUE,
     arts |-> {<<"train", 0>>, <<"test", 0>>},
     meta |-> Some([info |-> PrebuiltInfo, by |-> 0])]

Errors ==
    { "CacheCollision", "InsufficientDiskSpace", "FileExistsError",
      "DeclareError", "ChecksumMismatch", "ReservedSplitName",
      "SourceDataMissing", "GenerationError", "AssertionError",
      "SplitMismatch", "SaveInfoError", "RenameError",
      "MissingExecutionTarget", "PipelineError" }

\* What _prepare_split may do: write the artifact, raise OSError, or raise
\* another exception of the generation strategy.
PrepareResults == {"ok", "OSError", "GenerationError"}

VARIABLES
    fs,          \* [Identities \X {"target","staging"} -> directory]
    hf_gcs,      \* [Identities -> BOOLEAN]: the registry holds the artifact
    remote,      \* [Identities -> BOOLEAN]: is_remote_url(cache dir)
    slot,        \* [Callers -> Identities]: the builder's identity
    pc,          \* [Callers -> position in download_and_prepare]
    cache_dir,   \* [Callers -> "target" | "staging"]: self._cache_dir
    info,        \* [Callers -> DatasetInfo]: self.info
    call,        \* [Callers -> the arguments of the current call]
    gen,         \* [Callers -> locals of _download_and_prepare]
    exc,         \* [Callers -> the exception in flight, or "none"]
    outcome,     \* [Callers -> how the last call ended]
    did,         \* [Callers -> what the current call has invoked] (history)
    succeeded,   \* [Identities -> BOOLEAN]: a call has prepared or fetched
                 \* the dataset (history)
    exported,    \* the DatasetInfo a freshly constructed builder starts from
    inputs,      \* the sets the behaviour's inputs are drawn from
    ncalls,      \* calls started so far
    declared,    \* the class statement of the builder type has run
    BUILDER_CONFIGS,  \* the type's declared configs (mutable objects)
    VERSION,     \* the type's VERSION attribute
    memo,        \* what utils.memoize() holds for builder_configs
    config,      \* the last construction: self.config, or the error raised
    asked,       \* the arguments of the last construction (history)
    builders,    \* the builders constructed: each one's self.config
    nbuilders    \* constructions attempted so far

\* The download_and_prepare side of the state.
preparer == << fs, hf_gcs, remote, slot, pc, cache_dir, info, call, gen, exc,
              outcome, did, succeeded, exported, inputs, ncalls >>

\* The config resolution side of the state.
resolver == << declared, BUILDER_CONFIGS, VERSION, memo, config, asked,
              builders, nbuilders >>

vars == << preparer, resolver >>

\* ------------------------------------------------------------ helpers

Target(p) == <<slot[p], "target">>

\* Staging that is one path for every identity.
Staging_Shared(p) == <<"toy", "staging">>

\* builder.py:368  tmp_dir = dirname + ".incomplete"
Staging(p) == <<slot[p], "staging">>

\* CacheDir that is the target whatever self._cache_dir was assigned.
CacheDir_Target(p) == <<slot[p], "target">>

\* The directory self._cache_dir denotes.
CacheDir(p) == <<slot[p], cache_dir[p]>>

\* is_remote_url that takes every cache directory as local.
is_remote_url_Never(p) == FALSE

\* is_remote_url(self._cache_dir)
is_remote_url(p) == remote[slot[p]]

NoCall == [id |-> 0, mode |-> REUSE_DATASET_IF_EXISTS,
           try_from_hf_gcs |-> FALSE, verify_infos |-> FALSE]

\* pipeline is the state of the BeamPipeline of the call ("none" without
\* one), beam_writers the splits of self._beam_writers, metrics the records
\* the job counted for each of them.
NoGen == [split_generators |-> <<>>, idx |-> 0, recorded |-> None,
          pipeline |-> "none", beam_writers |-> <<>>, metrics |-> <<>>]

\* sum(...) over a sequence of numbers.
RECURSIVE Total(_)
Total(ns) == IF ns = <<>> THEN 0 ELSE Head(ns) + Total(Tail(ns))

\* History of one call: nothing invoked yet.
Fresh(existed, leftover) ==
    [started_exists |-> existed, leftover |-> leftover, fetched |-> FALSE,
     staged |-> FALSE, declared |-> 0, ran |-> <<>>, verified |-> FALSE,
     raised |-> "none", replaced |-> FALSE, expected |-> 0,
     yielded |-> <<>>, downloaded_size |-> None]

\* DatasetInfo.update(other): the fields other sets replace self's.
Update(self, other) ==
    [f \in DOMAIN self |-> IF other[f] # None THEN other[f] ELSE self[f]]

\* DatasetInfo.from_directory(dir) as the constructor uses it.
FromDirectory(d, dflt) == IF d.meta # None THEN d.meta[1].info ELSE dflt

\* verify_checksums(expected, recorded): passes without prior checksums.
verify_checksums(expected, recorded) ==
    expected = None \/ expected = recorded

\* The entries of a SplitDict by name: name -> num_examples.
Counts(splits) ==
    {<<splits[i].name, splits[i].num_examples>> : i \in 1..Len(splits)}

\* verify_splits(expected, recorded): passes without a prior split table,
\* fails on any discrepancy of the names or of their numbers of examples.
verify_splits(expected, recorded) ==
    expected = None \/ Counts(expected[1]) = Counts(recorded[1])

\* writer.finalize(): the number of the records written and their bytes.
Finalize(records) ==
    [num_examples |-> Len(records),
     num_bytes |-> Total([i \in 1..Len(records) |-> RecordBytes(records[i])])]

\* builder.py:623  assert num_examples == num_examples
CountAsserted(num_examples, split_info) == num_examples = num_examples

\* The file "<name>-<split>.arrow" written by call id into directory d.
WriteArtifact(d, split, id) ==
    [d EXCEPT !.exists = TRUE,
              !.arts = {a \in d.arts : a[1] # split} \cup {<<split, id>>}]

\* info.write_to_directory(dir)
WriteInfo(d, i, id) ==
    [d EXCEPT !.exists = TRUE, !.meta = Some([info |-> i, by |-> id])]

\* A file can be created in self._cache_dir: a local directory has to be
\* there; a remote path (builder.py:316, 418) is never made beforehand and
\* comes into being with its first file.
Writable(p) == is_remote_url(p) \/ fs[CacheDir(p)].exists

\* ------------------------------------------------------------ configs

\* builder.py:47-59: a BuilderConfig; every field is None or Some(value).
BuilderConfig(name, version, data_dir) ==
    [name |-> name, version |-> version, data_dir |-> data_dir]

\* builder.py:55-59: the defaults of the dataclass fields.
DefaultConfig == BuilderConfig(Some("default"), Some("0.0.0"), None)

\* The BUILDER_CONFIGS lists a builder type may declare (builder.py:86):
\* none, one, two, a config without version, one with an empty name, and
\* lists that name two configs alike.
DeclaredConfigs ==
    LET a == BuilderConfig(Some("a"), Some("1.0.0"), None)
        b == BuilderConfig(Some("b"), Some("1.0.0"), Some("/b"))
        a2 == BuilderConfig(Some("a"), Some("1.1.0"), None)
        unversioned == BuilderConfig(Some("a"), None, None)
        unnamed == BuilderConfig(Some(""), Some("1.0.0"), None)
        unnamed2 == BuilderConfig(Some(""), Some("1.1.0"), None)
    IN  { <<>>, <<a>>, <<a, b>>, <<b, a>>, <<unversioned, b>>, <<unnamed, a>>,
          <<a, a2>>, <<unnamed, unnamed2>> }

\* The VERSION a builder type may declare (builder.py:81).
Versions == {None, Some("3.0.0")}

\* The name argument of DatasetBuilder.__init__ (builder.py:98).
NameArgs == {None, Some("a"), Some("b"), Some("zz"), Some("")}

\* The values a caller may pass for a config keyword; None is a null.
OverrideValues(key) ==
    IF key = "version" THEN {None, Some("2.0.0")} ELSE {None, Some("/data")}

\* **config_kwargs of DatasetBuilder.__init__ (builder.py:98): any of the
\* keywords, each with a value or a null.
Kwargs ==
    UNION { { kw \in [K -> {None, Some("2.0.0"), Some("/data")}] :
                \A key \in K : kw[key] \in OverrideValues(key) } :
            K \in SUBSET {"version", "data_dir"} }

\* Python truth of a field value: None and "" are false.
Truthy(value) == value # None /\ value # Some("")

\* Filtered that keeps the nulls.
Filtered_KeepNull(config_kwargs) == config_kwargs

\* builder.py:116: the keywords whose value is not None.
Filtered(config_kwargs) ==
    [key \in {k \in DOMAIN config_kwargs : config_kwargs[k] # None} |->
        config_kwargs[key]]

\* len(config_dict) != len(cls.BUILDER_CONFIGS): two configs share a name.
Duplicated(configs) ==
    \E i \in 1..Len(configs), j \in 1..Len(configs) :
        i # j /\ configs[i].name = configs[j].name

\* {config.name: config for config in cls.BUILDER_CONFIGS}: each name, with
\* the position of the (last) config of that name.
ConfigDict(configs) ==
    [name \in {configs[i].name : i \in 1..Len(configs)} |->
        CHOOSE i \in 1..Len(configs) :
            /\ configs[i].name = name
            /\ \A j \in 1..Len(configs) : configs[j].name = name => j <= i]

\* builder_configs without the test of the names.
builder_configs_Unchecked(configs) ==
    [error |-> FALSE, dict |-> ConfigDict(configs)]

\* builder.py:199-205: the body of builder_configs: it raises on duplicated
\* names, else returns the dict.
builder_configs(configs) ==
    [error |-> Duplicated(configs), dict |-> ConfigDict(configs)]

\* builder.py:196-198: the memoized class property: the body runs when
\* nothing is memoized yet.
Access(configs, memoized) ==
    IF memoized # None
    THEN [error |-> FALSE, dict |-> memoized[1]]
    ELSE builder_configs(configs)

\* What utils.memoize() holds after an access: a raise memoizes nothing.
Memoized(access, memoized) ==
    IF access.error THEN memoized ELSE Some(access.dict)

\* First with the last declared config instead.
First_Last(configs) == Len(configs)

\* builder.py:158  self.BUILDER_CONFIGS[0], as a position in the list.
First(configs) == 1

\* NotFound that never raises.
NotFound_Never(found, configs) == FALSE

\* builder.py:162  if builder_config is None and self.BUILDER_CONFIGS
NotFound(found, configs) == found = 0 /\ configs # <<>>

\* builder.py:167-170: the keywords a synthesized config is made from: the
\* name when one is given, and the type's VERSION when no version is.
Synthesized(name, version_attr, config_kwargs) ==
    LET added == (IF name # None THEN {"name"} ELSE {})
                 \cup (IF "version" \notin DOMAIN config_kwargs
                           /\ Truthy(version_attr)
                        THEN {"version"} ELSE {})
    IN  [key \in DOMAIN config_kwargs \cup added |->
            IF key = "name" THEN name
            ELSE IF key \in DOMAIN config_kwargs THEN config_kwargs[key]
            ELSE version_attr]

\* builder.py:171  self.BUILDER_CONFIG_CLASS(**config_kwargs)
Construct(config_kwargs) ==
    [key \in DOMAIN DefaultConfig |->
        IF key \in DOMAIN config_kwargs THEN config_kwargs[key]
        ELSE DefaultConfig[key]]

\* builder.py:173-175: setattr of every keyword that is not None.
Setattr(builder_config, config_kwargs) ==
    [key \in DOMAIN builder_config |->
        IF key \in DOMAIN config_kwargs /\ config_kwargs[key] # None
        THEN config_kwargs[key] ELSE builder_config[key]]

\* How _create_builder_config ends: status is "ok" or the error raised, ref
\* the position of the declared config selected (0: a fresh object), value
\* the selected config; configs and memoized are the type's state after it.
Ended(status, ref, value, configs, memoized) ==
    [status |-> status, ref |-> ref, value |-> value, configs |-> configs,
     memoized |-> memoized]

\* builder.py:151-194: _create_builder_config(name, **config_kwargs) on a
\* type with BUILDER_CONFIGS configs and VERSION version_attr.
create_builder_config(configs, memoized, version_attr, name, config_kwargs) ==
    LET lookup == Access(configs, memoized)
        memo1 == IF name # None THEN Memoized(lookup, memoized) ELSE memoized
        found ==
            IF name = None
            THEN IF configs # <<>> THEN First(configs) ELSE 0
            ELSE IF ~lookup.error /\ name \in DOMAIN lookup.dict
                 THEN lookup.dict[name] ELSE 0
        kwargs == IF found = 0
                  THEN Synthesized(name, version_attr, config_kwargs)
                  ELSE config_kwargs
        selected == IF found = 0 THEN Construct(kwargs) ELSE configs[found]
        builder_config == Setattr(selected, kwargs)
        configs1 == IF found = 0 THEN configs
                    ELSE [configs EXCEPT ![found] = builder_config]
        check == Access(configs1, memo1)
        memo2 == Memoized(check, memo1)
    IN  IF name # None /\ lookup.error
        THEN Ended("ConfigDuplicate", 0, None, configs, memoized)
        ELSE IF name # None /\ NotFound(found, configs)
        THEN Ended("ConfigNotFound", 0, None, configs, memo1)
        ELSE IF ~Truthy(builder_config.name)
        THEN Ended("InvalidConfig", found, Some(builder_config), configs1,
                   memo1)
        ELSE IF check.error
        THEN Ended("ConfigDuplicate", found, Some(builder_config), configs1,
                   memo1)
        ELSE IF builder_config.name \notin DOMAIN check.dict
        THEN Ended("ok", found, Some(builder_config), configs1, memo2)
        ELSE IF found # check.dict[builder_config.name]
        THEN Ended("ConfigNameCollision", found, Some(builder_config),
                   configs1, memo2)
        ELSE IF ~Truthy(builder_config.version)
        THEN Ended("MissingVersion", found, Some(builder_config), configs1,
                   memo2)
        ELSE Ended("ok", found, Some(builder_config), configs1, memo2)

\* builder.py:117: the builder a construction returns: self.config is the
\* object _create_builder_config returned, a declared config (ref > 0) or a
\* fresh one; constructed keeps its fields as they were then (history).
Builder(end) ==
    [ref |-> end.ref, config |-> end.value[1], constructed |-> end.value[1]]

\* builder.py:211-222: self.config as a builder reads it: a declared config
\* is the object in BUILDER_CONFIGS, whoever has written to it since.
ConfigOf(builder, configs) ==
    IF builder.ref > 0 THEN configs[builder.ref] ELSE builder.config

\* No construction yet.
NoConfig == [status |-> "none", ref |-> 0, value |-> None]

NoArgs == [name |-> None, config_kwargs |-> <<>>, before |-> <<>>]

\* No builder type is declared: the resolver has not run.
Undeclared ==
    /\ declared = FALSE
    /\ BUILDER_CONFIGS = <<>>
    /\ VERSION = None
    /\ memo = None
    /\ config = NoConfig
    /\ asked = NoArgs
    /\ builders = <<>>
    /\ nbuilders = 0

\* ------------------------------------------------------------ initial state

\* After DatasetBuilder.__init__ (builder.py:97-133) on an empty cache root.
Constructed ==
    /\ fs = [d \in Identities \X {"target", "staging"} |-> NoDir]
    /\ \E b \in BOOLEAN : hf_gcs = [i \in Identities |-> b]
    /\ \E b \in BOOLEAN : remote = [i \in Identities |-> b]
    /\ slot = [p \in Callers |-> "toy"]
    /\ pc = [p \in Callers |-> "idle"]
    /\ cache_dir = [p \in Callers |-> "target"]
    /\ exported \in {EmptyInfo, ExportedInfo}
    /\ info = [p \in Callers |-> exported]
    /\ call = [p \in Callers |-> NoCall]
    /\ gen = [p \in Callers |-> NoGen]
    /\ exc = [p \in Callers |-> "none"]
    /\ outcome = [p \in Callers |-> "none"]
    /\ did = [p \in Callers |-> Fresh(FALSE, FALSE)]
    /\ succeeded = [i \in Identities |-> FALSE]
    /\ ncalls = 0

\* Calls in sequence, each split yielding one record.
Init == Constructed /\ inputs = CallInputs /\ Undeclared

\* Two builders of different identities on a local cache root, each in its
\* own process.
InitApart ==
    /\ fs = [d \in Identities \X {"target", "staging"} |-> NoDir]
    /\ \E b \in BOOLEAN : hf_gcs = [i \in Identities |-> b]
    /\ remote = [i \in Identities |-> FALSE]
    /\ slot = [p \in Callers |-> IF p = "c1" THEN "toy" ELSE "other"]
    /\ pc = [p \in Callers |-> "idle"]
    /\ cache_dir = [p \in Callers |-> "target"]
    /\ exported = EmptyInfo
    /\ info = [p \in Callers |-> exported]
    /\ call = [p \in Callers |-> NoCall]
    /\ gen = [p \in Callers |-> NoGen]
    /\ exc = [p \in Callers |-> "none"]
    /\ outcome = [p \in Callers |-> "none"]
    /\ did = [p \in Callers |-> Fresh(FALSE, FALSE)]
    /\ succeeded = [i \in Identities |-> FALSE]
    /\ ncalls = 0
    /\ inputs = ParallelInputs
    /\ Undeclared

\* Two builders of the same identity, each in its own process.
InitRace ==
    /\ fs = [d \in Identities \X {"target", "staging"} |-> NoDir]
    /\ \E b \in BOOLEAN : hf_gcs = [i \in Identities |-> b]
    /\ remote = [i \in Identities |-> FALSE]
    /\ slot = [p \in Callers |-> "toy"]
    /\ pc = [p \in Callers |-> "idle"]
    /\ cache_dir = [p \in Callers |-> "target"]
    /\ exported = EmptyInfo
    /\ info = [p \in Callers |-> exported]
    /\ call = [p \in Callers |-> NoCall]
    /\ gen = [p \in Callers |-> NoGen]
    /\ exc = [p \in Callers |-> "none"]
    /\ outcome = [p \in Callers |-> "none"]
    /\ did = [p \in Callers |-> Fresh(FALSE, FALSE)]
    /\ succeeded = [i \in Identities |-> FALSE]
    /\ ncalls = 0
    /\ inputs = ParallelInputs
    /\ Undeclared

\* One call of a BeamBasedBuilder.
InitBeam == Constructed /\ inputs \in BeamInputs /\ Undeclared

\* One call, its splits seen record by record.
InitRecords == Constructed /\ inputs = RecordInputs /\ Undeclared

\* Before the class statement of a builder type: no call is made.
InitConfig ==
    /\ fs = [d \in Identities \X {"target", "staging"} |-> NoDir]
    /\ hf_gcs = [i \in Identities |-> FALSE]
    /\ remote = [i \in Identities |-> FALSE]
    /\ slot = [p \in Callers |-> "toy"]
    /\ pc = [p \in Callers |-> "idle"]
    /\ cache_dir = [p \in Callers |-> "target"]
    /\ exported = EmptyInfo
    /\ info = [p \in Callers |-> exported]
    /\ call = [p \in Callers |-> NoCall]
    /\ gen = [p \in Callers |-> NoGen]
    /\ exc = [p \in Callers |-> "none"]
    /\ outcome = [p \in Callers |-> "none"]
    /\ did = [p \in Callers |-> Fresh(FALSE, FALSE)]
    /\ succeeded = [i \in Identities |-> FALSE]
    /\ inputs = CallInputs
    /\ ncalls = 0
    /\ Undeclared

\* ------------------------------------------------------------ actions

\* The call returns to the caller: normally with result r, or raising r.
Return(p, r) ==
    /\ pc' = [pc EXCEPT ![p] = "idle"]
    /\ outcome' = [outcome EXCEPT ![p] = r]
    /\ succeeded' = [succeeded EXCEPT
           ![slot[p]] = @ \/ r \in {"Prepared", "Prebuilt"}]

\* The call goes on to its next step.
Goto(p, where) ==
    /\ pc' = [pc EXCEPT ![p] = where]
    /\ outcome' = outcome
    /\ succeeded' = succeeded

\* An exception e leaves the body of `with incomplete_dir(...)`
\* (builder.py:380-393): temporary_assignment gives self._cache_dir back, and
\* for a local target the finally clause of incomplete_dir runs next; a
\* remote target has none.  d is the call's history up to the raise.
RaiseInScope(p, e, d) ==
    /\ cache_dir' = [cache_dir EXCEPT ![p] = "target"]
    /\ did' = [did EXCEPT ![p] = [d EXCEPT !.raised = e]]
    /\ IF is_remote_url(p)
       THEN Return(p, e) /\ exc' = exc
       ELSE Goto(p, "cleanup") /\ exc' = [exc EXCEPT ![p] = e]

\* EntryDecision with the reuse test made on the wrong mode.
EntryDecision_WrongMode(data_exists, download_mode) ==
    IF data_exists /\ download_mode = REUSE_CACHE_IF_EXISTS THEN "Reused"
    ELSE IF data_exists /\ download_mode # REUSE_DATASET_IF_EXISTS
         THEN "CacheCollision"
         ELSE "generate"

\* builder.py:300-313: the entry decision.
EntryDecision(data_exists, download_mode) ==
    IF data_exists /\ download_mode = REUSE_DATASET_IF_EXISTS THEN "Reused"
    ELSE IF data_exists /\ download_mode # REUSE_CACHE_IF_EXISTS
         THEN "CacheCollision"
         ELSE "generate"

\* builder.py:279-313: download_and_prepare is called.
download_and_prepare(p) ==
    /\ pc[p] = "idle"
    /\ ncalls < inputs.calls
    /\ \E m \in inputs.modes, gcs \in BOOLEAN, save \in inputs.save_infos,
          ign \in inputs.ignore_verifications :
         LET download_mode == GenerateMode(m)
             data_exists == fs[CacheDir(p)].exists
             entry == EntryDecision(data_exists, download_mode)
         IN  /\ call' = [call EXCEPT ![p] =
                    [id |-> ncalls + 1, mode |-> download_mode,
                     try_from_hf_gcs |-> gcs,
                     verify_infos |-> VerifyInfos(save, ign)]]
             /\ did' = [did EXCEPT ![p] =
                    Fresh(data_exists, fs[Staging(p)].exists)]
             /\ IF entry = "generate"
                THEN Goto(p, "makedirs")
                ELSE Return(p, entry)
    /\ ncalls' = ncalls + 1
    /\ gen' = [gen EXCEPT ![p] = NoGen]
    /\ UNCHANGED << fs, hf_gcs, remote, slot, cache_dir, info, exc,
                    exported, inputs, resolver >>

\* os.makedirs(path, exist_ok=True)
MakeDirs(d) == IF d.exists THEN d ELSE EmptyDir

\* builder.py:316-325: create the cache directory, check the disk space.
check_disk_space(p) ==
    /\ pc[p] = "makedirs"
    /\ IF is_remote_url(p)
       THEN /\ fs' = fs
            /\ Goto(p, "try_from_hf_gcs")
       ELSE /\ fs' = [fs EXCEPT ![CacheDir(p)] = MakeDirs(@)]
            /\ \E has_sufficient_disk_space \in BOOLEAN :
                 IF has_sufficient_disk_space
                 THEN Goto(p, "try_from_hf_gcs")
                 ELSE Return(p, "InsufficientDiskSpace")
    /\ UNCHANGED << hf_gcs, remote, slot, cache_dir, info, call, gen, exc,
                    did, exported, inputs, resolver, ncalls >>

\* reader.download_from_hf_gcs(cache_dir, ...): the registry's files land in d.
DownloadFromHfGcs(d) ==
    [exists |-> TRUE,
     arts |-> {a \in d.arts : \A b \in PrebuiltDir.arts : a[1] # b[1]}
                \cup PrebuiltDir.arts,
     meta |-> PrebuiltDir.meta]

\* prebuilt_found without its return: the call goes on to generate locally.
prebuilt_found_NoReturn(p) ==
    LET d == DownloadFromHfGcs(fs[CacheDir(p)])
    IN  /\ fs' = [fs EXCEPT ![CacheDir(p)] = d]
        /\ info' = [info EXCEPT ![p] = Update(@, FromDirectory(d, EmptyInfo))]
        /\ Goto(p, "incomplete_dir")

\* builder.py:330-339: the registry holds the artifact: download it into the
\* cache directory, merge its metadata, return.
prebuilt_found(p) ==
    LET d == DownloadFromHfGcs(fs[CacheDir(p)])
    IN  /\ fs' = [fs EXCEPT ![CacheDir(p)] = d]
        /\ info' = [info EXCEPT ![p] = Update(@, FromDirectory(d, EmptyInfo))]
        /\ Return(p, "Prebuilt")

\* prebuilt_not_found without the except clause: the exception surfaces.
prebuilt_not_found_Uncaught(p) ==
    /\ UNCHANGED << fs, info >>
    /\ Return(p, "DatasetNotOnHfGcs")

\* builder.py:340-341: DatasetNotOnHfGcs is caught and logged.
prebuilt_not_found(p) ==
    /\ UNCHANGED << fs, info >>
    /\ Goto(p, "incomplete_dir")

\* builder.py:327-341: try the already prepared dataset files.
try_from_hf_gcs(p) ==
    /\ pc[p] = "try_from_hf_gcs"
    /\ IF call[p].try_from_hf_gcs
       THEN /\ did' = [did EXCEPT ![p].fetched = TRUE]
            /\ IF hf_gcs[slot[p]]
               THEN prebuilt_found(p)
               ELSE prebuilt_not_found(p)
       ELSE /\ UNCHANGED << fs, info, did >>
            /\ Goto(p, "incomplete_dir")
    /\ UNCHANGED << hf_gcs, remote, slot, cache_dir, call, gen, exc,
                    exported, inputs, resolver, ncalls >>

\* builder.py:362-371 and 380-384: enter incomplete_dir(self._cache_dir) and
\* temporary_assignment(self, "_cache_dir", tmp_data_dir).
incomplete_dir(p) ==
    /\ pc[p] = "incomplete_dir"
    /\ IF is_remote_url(p)
       THEN /\ UNCHANGED << fs, cache_dir, did >>
            /\ Goto(p, "split_generators")
       ELSE IF fs[Staging(p)].exists
            THEN \* os.makedirs(tmp_dir) raises before the try
                 /\ UNCHANGED << fs, cache_dir, did >>
                 /\ Return(p, "FileExistsError")
            ELSE /\ fs' = [fs EXCEPT ![Staging(p)] = EmptyDir]
                 /\ cache_dir' = [cache_dir EXCEPT ![p] = "staging"]
                 /\ did' = [did EXCEPT ![p].staged = TRUE]
                 /\ Goto(p, "split_generators")
    /\ UNCHANGED << hf_gcs, remote, slot, info, call, gen, exc, exported,
                    inputs, resolver, ncalls >>

\* verify_infos with the caller's flag handed on by BeamBasedBuilder.
verify_infos_Forwarded(p) == call[p].verify_infos

\* builder.py:385-387 and 781-783: the verify_infos that reaches
\* DatasetBuilder._download_and_prepare: the caller's, but False from
\* BeamBasedBuilder._download_and_prepare.
verify_infos(p) ==
    call[p].verify_infos /\ inputs.builder # BeamBasedBuilder

\* ChecksumsVerified without the comparison.
ChecksumsVerified_Unchecked(p, recorded) == TRUE

\* builder.py:423-426: if verify_infos: verify_checksums(
\*     self.info.download_checksums, dl_manager.get_recorded_sizes_checksums())
ChecksumsVerified(p, recorded) ==
    verify_infos(p)
        => verify_checksums(info[p].download_checksums, recorded)

\* builder.py:417-426: _download_and_prepare up to the loop over the splits.
split_generators(p) ==
    /\ pc[p] = "split_generators"
    /\ inputs.builder = BeamBasedBuilder => gen[p].pipeline = "built"
    /\ fs' = IF is_remote_url(p) THEN fs
             ELSE [fs EXCEPT ![CacheDir(p)] = MakeDirs(@)]
    /\ \E sg \in inputs.splits, e \in inputs.expected,
          obs \in inputs.checksums, raises \in BOOLEAN :
         LET d == [did[p] EXCEPT !.declared = @ + 1]
             dv == [d EXCEPT !.verified = @ \/ verify_infos(p),
                             !.expected = e]
         IN  IF raises
             THEN /\ gen' = gen
                  /\ RaiseInScope(p, "DeclareError", d)
             ELSE /\ gen' = [gen EXCEPT ![p].split_generators =
                                            Stubs(sg, e),
                                        ![p].idx = 1,
                                        ![p].recorded = Some(obs)]
                  /\ IF ~ChecksumsVerified(p, Some(obs))
                     THEN RaiseInScope(p, "ChecksumMismatch", dv)
                     ELSE /\ did' = [did EXCEPT ![p] = dv]
                          /\ Goto(p, "prepare_split")
                          /\ UNCHANGED << cache_dir, exc >>
    /\ UNCHANGED << hf_gcs, remote, slot, info, call, exported, inputs,
                    resolver, ncalls >>

\* Written without the counts of writer.finalize().
Written_Uncounted(split_info, records) == split_info

\* builder.py:622-625: the SplitInfo of the split generator after its records
\* are written: num_examples and num_bytes are those of writer.finalize().
Written(split_info, records) ==
    [split_info EXCEPT !.num_examples = Finalize(records).num_examples,
                       !.num_bytes = Finalize(records).num_bytes]

\* builder.py:427-442 and 609-625: one turn of the loop over
\* split_generators, with GeneratorBasedBuilder._prepare_split.
prepare_split(p) ==
    /\ pc[p] = "prepare_split"
    /\ gen[p].idx <= Len(gen[p].split_generators)
    /\ LET i == gen[p].idx
           split_info == gen[p].split_generators[i]
           d == [did[p] EXCEPT !.ran = Append(@, i)]
       IN  IF IsReserved(split_info.name)
           THEN /\ UNCHANGED << fs, gen >>
                /\ RaiseInScope(p, "ReservedSplitName", did[p])
           ELSE \E r \in PrepareResults, records \in inputs.producers :
                  IF r = "ok" /\ Writable(p)
                  THEN IF CountAsserted(Finalize(records).num_examples,
                                        split_info)
                       THEN /\ fs' = [fs EXCEPT ![CacheDir(p)] =
                                   WriteArtifact(@, split_info.name,
                                                 call[p].id)]
                            /\ gen' = [gen EXCEPT
                                   ![p].idx = i + 1,
                                   ![p].split_generators[i] =
                                       Written(@, records)]
                            /\ did' = [did EXCEPT ![p] =
                                   [d EXCEPT !.yielded = Append(@, records)]]
                            /\ Goto(p, "prepare_split")
                            /\ UNCHANGED << cache_dir, exc >>
                       ELSE /\ UNCHANGED << fs, gen >>
                            /\ RaiseInScope(p, "AssertionError", d)
                  ELSE /\ UNCHANGED << fs, gen >>
                       /\ RaiseInScope(p,
                              IF r = "GenerationError" THEN r
                              ELSE "SourceDataMissing", d)
    /\ UNCHANGED << hf_gcs, remote, slot, info, call, exported, inputs,
                    resolver, ncalls >>

\* SplitsVerified without the comparison.
SplitsVerified_Unchecked(p) == TRUE

\* builder.py:444-445: if verify_infos: verify_splits(self.info.splits, ...)
SplitsVerified(p) ==
    verify_infos(p)
        => verify_splits(info[p].splits, Some(gen[p].split_generators))

\* builder.py:389  sum(split.num_bytes for split in self.info.splits.values())
DatasetSize(splits) ==
    Total([i \in 1..Len(splits) |-> splits[i].num_bytes])

\* SyncedInfo with the download size left out of size_in_bytes.
SyncedInfo_DatasetOnly(p, downloaded_size) ==
    [splits |-> Some(gen[p].split_generators),
     download_checksums |-> gen[p].recorded,
     download_size |-> Some(downloaded_size),
     dataset_size |-> Some(DatasetSize(gen[p].split_generators)),
     size_in_bytes |-> Some(DatasetSize(gen[p].split_generators))]

\* builder.py:446-448 and 388-391: the info updated with the splits and the
\* download size, then synced with the sizes and the download manager's
\* recorded checksums.
SyncedInfo(p, downloaded_size) ==
    [splits |-> Some(gen[p].split_generators),
     download_checksums |-> gen[p].recorded,
     download_size |-> Some(downloaded_size),
     dataset_size |-> Some(DatasetSize(gen[p].split_generators)),
     size_in_bytes |->
         Some(DatasetSize(gen[p].split_generators) + downloaded_size)]

\* builder.py:448  dl_manager.downloaded_size: read once in a call, when
\* DatasetBuilder._download_and_prepare ends.
DownloadedSizes(p) ==
    IF gen[p].pipeline = "none" THEN inputs.downloaded_size
    ELSE {info[p].download_size[1]}

\* builder.py:385-393: the loop of _download_and_prepare is over (444-448);
\* verify the splits, update, sync and save the info; the temporary
\* assignment of _cache_dir ends.
sync_info(p) ==
    /\ pc[p] = "prepare_split"
    /\ gen[p].idx > Len(gen[p].split_generators)
    /\ gen[p].pipeline \in {"none", "finalized"}
    /\ LET d == [did[p] EXCEPT !.verified = @ \/ verify_infos(p)]
       IN  IF ~SplitsVerified(p)
           THEN /\ UNCHANGED << fs, info >>
                /\ RaiseInScope(p, "SplitMismatch", d)
           ELSE \E downloaded_size \in DownloadedSizes(p),
                   written \in BOOLEAN :
                  LET synced == SyncedInfo(p, downloaded_size)
                      ds == [d EXCEPT !.downloaded_size =
                                          Some(downloaded_size)]
                  IN  /\ info' = [info EXCEPT ![p] = synced]
                      /\ IF written /\ Writable(p)
                         THEN /\ fs' = [fs EXCEPT ![CacheDir(p)] =
                                     WriteInfo(@, synced, call[p].id)]
                              /\ cache_dir' =
                                     [cache_dir EXCEPT ![p] = "target"]
                              /\ did' = [did EXCEPT ![p] = ds]
                              /\ exc' = exc
                              /\ IF is_remote_url(p)
                                 THEN Return(p, "Prepared")
                                 ELSE Goto(p, "commit_rmtree")
                         ELSE /\ fs' = fs
                              /\ RaiseInScope(p, "SaveInfoError", ds)
    /\ UNCHANGED << hf_gcs, remote, slot, call, gen, exported, inputs,
                    resolver, ncalls >>

\* commit_rmtree without the rmtree: the old target stays in place.
commit_rmtree_Skipped(p) ==
    /\ pc[p] = "commit_rmtree"
    /\ fs' = fs
    /\ did' = [did EXCEPT ![p].replaced = FALSE]
    /\ Goto(p, "commit_rename")
    /\ UNCHANGED << hf_gcs, remote, slot, cache_dir, info, call, gen, exc,
                    exported, inputs, resolver, ncalls >>

\* builder.py:372-373: if os.path.isdir(dirname): shutil.rmtree(dirname)
commit_rmtree(p) ==
    /\ pc[p] = "commit_rmtree"
    /\ fs' = [fs EXCEPT ![Target(p)] = NoDir]
    /\ did' = [did EXCEPT ![p].replaced = fs[Target(p)].arts # {}]
    /\ Goto(p, "commit_rename")
    /\ UNCHANGED << hf_gcs, remote, slot, cache_dir, info, call, gen, exc,
                    exported, inputs, resolver, ncalls >>

\* os.rename(src, dst) of directories: dst must be absent or empty.
CanRename(src, dst) == src.exists /\ (~dst.exists \/ dst = EmptyDir)

\* builder.py:374: os.rename(tmp_dir, dirname)
commit_rename(p) ==
    /\ pc[p] = "commit_rename"
    /\ IF CanRename(fs[Staging(p)], fs[Target(p)])
       THEN /\ fs' = [fs EXCEPT ![Target(p)] = fs[Staging(p)],
                                ![Staging(p)] = NoDir]
            /\ exc' = exc
       ELSE /\ fs' = fs
            /\ exc' = [exc EXCEPT ![p] = "RenameError"]
    /\ Goto(p, "cleanup")
    /\ UNCHANGED << hf_gcs, remote, slot, cache_dir, info, call, gen, did,
                    exported, inputs, resolver, ncalls >>

\* cleanup without the finally clause: the staging directory is left behind.
cleanup_NoFinally(p) ==
    /\ pc[p] = "cleanup"
    /\ fs' = fs
    /\ Return(p, IF exc[p] = "none" THEN "Prepared" ELSE exc[p])
    /\ exc' = [exc EXCEPT ![p] = "none"]
    /\ UNCHANGED << hf_gcs, remote, slot, cache_dir, info, call, gen, did,
                    exported, inputs, resolver, ncalls >>

\* builder.py:375-377: the finally clause of incomplete_dir, then the call
\* returns (builder.py:395-402) or the exception reaches the caller.
cleanup(p) ==
    /\ pc[p] = "cleanup"
    /\ fs' = [fs EXCEPT ![Staging(p)] = NoDir]
    /\ Return(p, IF exc[p] = "none" THEN "Prepared" ELSE exc[p])
    /\ exc' = [exc EXCEPT ![p] = "none"]
    /\ UNCHANGED << hf_gcs, remote, slot, cache_dir, info, call, gen, did,
                    exported, inputs, resolver, ncalls >>

\* ------------------------------------------------- BeamBasedBuilder

\* HasTarget that takes any builder as having a runner.
HasTarget_Always(beam_runner, beam_options) == TRUE

\* builder.py:764  not (not beam_runner and not beam_options)
HasTarget(beam_runner, beam_options) == beam_runner \/ beam_options

\* builder.py:756-780: BeamBasedBuilder._download_and_prepare up to the call
\* of DatasetBuilder._download_and_prepare: without a runner and without
\* options it raises ValueError, else it builds the BeamPipeline.
Beam_download_and_prepare(p) ==
    /\ pc[p] = "split_generators"
    /\ gen[p].pipeline = "none"
    /\ IF HasTarget(inputs.beam_runner, inputs.beam_options)
       THEN /\ gen' = [gen EXCEPT ![p].pipeline = "built"]
            /\ Goto(p, "split_generators")
            /\ UNCHANGED << cache_dir, exc, did >>
       ELSE /\ gen' = gen
            /\ RaiseInScope(p, "MissingExecutionTarget", did[p])
    /\ UNCHANGED << fs, hf_gcs, remote, slot, info, call, exported, inputs,
                    resolver, ncalls >>

\* builder.py:427-442 and 806-833: one turn of the loop over
\* split_generators, with BeamBasedBuilder._prepare_split: the split gets a
\* BeamWriter in self._beam_writers and its PCollection is added to the
\* pipeline; nothing is written yet.
Beam_prepare_split(p) ==
    /\ pc[p] = "prepare_split"
    /\ gen[p].idx <= Len(gen[p].split_generators)
    /\ LET i == gen[p].idx
           split_info == gen[p].split_generators[i]
           d == [did[p] EXCEPT !.ran = Append(@, i)]
       IN  IF IsReserved(split_info.name)
           THEN /\ gen' = gen
                /\ RaiseInScope(p, "ReservedSplitName", did[p])
           ELSE \E r \in PrepareResults :
                  IF r = "ok"
                  THEN /\ gen' = [gen EXCEPT
                              ![p].idx = i + 1,
                              ![p].beam_writers =
                                  Append(@, split_info.name)]
                       /\ did' = [did EXCEPT ![p] = d]
                       /\ Goto(p, "prepare_split")
                       /\ UNCHANGED << cache_dir, exc >>
                  ELSE /\ gen' = gen
                       /\ RaiseInScope(p,
                              IF r = "GenerationError" THEN r
                              ELSE "SourceDataMissing", d)
    /\ UNCHANGED << fs, hf_gcs, remote, slot, info, call, exported, inputs,
                    resolver, ncalls >>

\* builder.py:444-448 and 785: DatasetBuilder._download_and_prepare ends
\* (verify_infos is False): the info takes the splits and the download size;
\* then pipeline.run() submits the job of all the splits.
pipeline_run(p) ==
    /\ pc[p] = "prepare_split"
    /\ gen[p].idx > Len(gen[p].split_generators)
    /\ gen[p].pipeline = "built"
    /\ \E downloaded_size \in inputs.downloaded_size, submitted \in BOOLEAN :
         LET d == [did[p] EXCEPT !.downloaded_size = Some(downloaded_size)]
         IN  /\ info' = [info EXCEPT
                    ![p].splits = Some(gen[p].split_generators),
                    ![p].download_size = Some(downloaded_size)]
             /\ IF submitted
                THEN /\ gen' = [gen EXCEPT ![p].pipeline = "running"]
                     /\ did' = [did EXCEPT ![p] = d]
                     /\ Goto(p, "prepare_split")
                     /\ UNCHANGED << cache_dir, exc >>
                ELSE /\ gen' = gen
                     /\ RaiseInScope(p, "PipelineError", d)
    /\ UNCHANGED << fs, hf_gcs, remote, slot, call, exported, inputs,
                    resolver, ncalls >>

\* The files the job leaves in directory d: one for each split it wrote.
RECURSIVE JobOutput(_, _, _)
JobOutput(d, splits, id) ==
    IF splits = <<>> THEN d
    ELSE JobOutput(WriteArtifact(d, Head(splits), id), Tail(splits), id)

\* builder.py:786  pipeline_results.wait_until_finish(): the call blocks
\* until the job is over; the job has written the file of every split that
\* was added to the pipeline, or has failed.
wait_until_finish(p) ==
    /\ pc[p] = "prepare_split"
    /\ gen[p].pipeline = "running"
    /\ \E done \in BOOLEAN,
          counted \in [1..Len(gen[p].beam_writers) -> inputs.producers] :
         IF done /\ Writable(p)
         THEN /\ fs' = [fs EXCEPT ![CacheDir(p)] =
                     JobOutput(@, gen[p].beam_writers, call[p].id)]
              /\ gen' = [gen EXCEPT ![p].pipeline = "finished",
                                    ![p].metrics = counted]
              /\ did' = [did EXCEPT ![p].yielded = counted]
              /\ Goto(p, "prepare_split")
              /\ UNCHANGED << cache_dir, exc >>
         ELSE /\ UNCHANGED << fs, gen >>
              /\ RaiseInScope(p, "PipelineError", did[p])
    /\ UNCHANGED << hf_gcs, remote, slot, info, call, exported, inputs,
                    resolver, ncalls >>

\* The position of the split called name in a split_dict, 0 without one.
IndexOf(splits, name) ==
    IF \E i \in 1..Len(splits) : splits[i].name = name
    THEN CHOOSE i \in 1..Len(splits) : splits[i].name = name
    ELSE 0

RECURSIVE Finalized(_, _, _)

\* Finalized that leaves the SplitInfos as the split generators made them.
Finalized_Unset(splits, writers, metrics) == splits

\* builder.py:790-795: for each BeamWriter, the num_examples and num_bytes
\* of beam_writer.finalize(metrics.query(m_filter)) are set on the SplitInfo
\* of its split.
Finalized(splits, writers, metrics) ==
    IF writers = <<>> THEN splits
    ELSE LET i == IndexOf(splits, Head(writers))
         IN  Finalized([splits EXCEPT ![i] = Written(@, Head(metrics))],
                       Tail(writers), Tail(metrics))

\* builder.py:787-795: the metrics of the finished job are queried and the
\* SplitInfos, which self.info.splits holds too, take their counts.
finalize(p) ==
    /\ pc[p] = "prepare_split"
    /\ gen[p].pipeline = "finished"
    /\ LET split_dict == Finalized(gen[p].split_generators,
                                  gen[p].beam_writers, gen[p].metrics)
       IN  /\ gen' = [gen EXCEPT ![p].split_generators = split_dict,
                                 ![p].pipeline = "finalized"]
           /\ info' = [info EXCEPT ![p].splits = Some(split_dict)]
    /\ Goto(p, "prepare_split")
    /\ UNCHANGED << fs, hf_gcs, remote, slot, cache_dir, call, exc, did,
                    exported, inputs, resolver, ncalls >>

\* The process is terminated in the middle of a call; the next attempt runs
\* in a new process, which constructs the builder again (builder.py:129-133).
kill(p) ==
    /\ pc[p] # "idle"
    /\ Return(p, "Killed")
    /\ exc' = [exc EXCEPT ![p] = "none"]
    /\ cache_dir' = [cache_dir EXCEPT ![p] = "target"]
    /\ info' = [info EXCEPT ![p] =
           IF fs[Target(p)].exists
           THEN FromDirectory(fs[Target(p)], exported)
           ELSE exported]
    /\ UNCHANGED << fs, hf_gcs, remote, slot, call, gen, did, exported,
                    inputs, resolver, ncalls >>

\* download_and_prepare of a GeneratorBasedBuilder, step by step.
Run(p) ==
    \/ download_and_prepare(p)
    \/ check_disk_space(p)
    \/ try_from_hf_gcs(p)
    \/ incomplete_dir(p)
    \/ split_generators(p)
    \/ prepare_split(p)
    \/ sync_info(p)
    \/ commit_rmtree(p)
    \/ commit_rename(p)
    \/ cleanup(p)

Step(p) == Run(p) \/ kill(p)

\* One caller at a time: calls of download_and_prepare in sequence.
Next == \E p \in Sequential : Step(p)

Spec == Init /\ [][Next]_vars

SpecRecords == InitRecords /\ [][Next]_vars

\* Two callers without a lock: their steps interleave in any way.
NextParallel == \E p \in Callers : Run(p)

SpecApart == InitApart /\ [][NextParallel]_vars

SpecRace == InitRace /\ [][NextParallel]_vars

\* download_and_prepare of a BeamBasedBuilder.
StepBeam(p) ==
    \/ download_and_prepare(p)
    \/ check_disk_space(p)
    \/ try_from_hf_gcs(p)
    \/ incomplete_dir(p)
    \/ Beam_download_and_prepare(p)
    \/ split_generators(p)
    \/ Beam_prepare_split(p)
    \/ pipeline_run(p)
    \/ wait_until_finish(p)
    \/ finalize(p)
    \/ sync_info(p)
    \/ commit_rmtree(p)
    \/ commit_rename(p)
    \/ cleanup(p)
    \/ kill(p)

NextBeam == \E p \in Sequential : StepBeam(p)

SpecBeam == InitBeam /\ [][NextBeam]_vars

\* ------------------------------------------------------------ resolver

\* builder.py:64-86: the class statement of a builder type runs: it binds
\* VERSION and BUILDER_CONFIGS, and looks at neither.
declare_builder ==
    /\ ~declared
    /\ declared' = TRUE
    /\ BUILDER_CONFIGS' \in DeclaredConfigs
    /\ VERSION' \in Versions
    /\ UNCHANGED << memo, config, asked, builders, nbuilders, preparer >>

\* builder.py:97-117: a builder of the type is constructed, which resolves
\* its config.
construct ==
    /\ declared
    /\ nbuilders < MaxBuilders
    /\ \E name \in NameArgs, config_kwargs \in Kwargs :
         LET end == create_builder_config(BUILDER_CONFIGS, memo, VERSION,
                                          name, Filtered(config_kwargs))
         IN  /\ BUILDER_CONFIGS' = end.configs
             /\ memo' = end.memoized
             /\ config' = [status |-> end.status, ref |-> end.ref,
                           value |-> end.value]
             /\ asked' = [name |-> name, config_kwargs |-> config_kwargs,
                          before |-> BUILDER_CONFIGS]
             /\ builders' = IF end.status = "ok"
                            THEN Append(builders, Builder(end))
                            ELSE builders
    /\ nbuilders' = nbuilders + 1
    /\ UNCHANGED << declared, VERSION, preparer >>

NextConfig == declare_builder \/ construct

SpecConfig == InitConfig /\ [][NextConfig]_vars

\* ------------------------------------------------------------ claims

\* The split names of a declared list.
Names(sg) == {sg[i].name : i \in 1..Len(sg)}

\* A fully written slot: the metadata record and one artifact per split of
\* its split table.
Complete(d) ==
    /\ d.exists
    /\ d.meta # None
    /\ d.meta[1].info.splits # None
    /\ \A n \in Names(d.meta[1].info.splits[1]) : \E a \in d.arts : a[1] = n

\* The errors raised by local generation, inside the staging scope.
GenerationFailures ==
    { "DeclareError", "ChecksumMismatch", "ReservedSplitName",
      "SourceDataMissing", "GenerationError", "SplitMismatch",
      "SaveInfoError" }

Local(p) == ~is_remote_url(p)

Returned(p) == pc[p] = "idle" /\ call[p].id > 0 /\ outcome[p] # "Killed"

\* C1: on a local cache root, in every reachable state, a target slot that
\* exists is fully written (metadata and every split's artifact): it never
\* exists empty or partially written.
C1_SlotNeverPartial ==
    \A i \in Identities :
        (~remote[i] /\ fs[<<i, "target">>].exists)
            => Complete(fs[<<i, "target">>])

\* C2: a call that started with the target slot absent and whose local
\* generation failed returns with the target slot absent.
C2_FailureLeavesSlotAbsent ==
    \A p \in Callers :
        (Returned(p) /\ Local(p) /\ ~did[p].started_exists
            /\ outcome[p] \in GenerationFailures)
            => ~fs[Target(p)].exists

\* C4: a call that finds the target slot existing, in mode force-redownload
\* or reuse-cache, goes on to regenerate: it neither ends as a cache hit nor
\* fails with CacheCollision.
C4_ForceAndReuseCacheRegenerate ==
    \A p \in Callers :
        (call[p].id > 0 /\ did[p].started_exists
            /\ call[p].mode \in {FORCE_REDOWNLOAD, REUSE_CACHE_IF_EXISTS})
            => outcome[p] \notin {"Reused", "CacheCollision"}

\* C7: a call that starts with a staging directory left behind by a killed
\* call tolerates it: it does not fail on creating the staging directory, and
\* it does not report a cache hit for a slot that was never fully written.
C7_LeftoverStagingTolerated ==
    \A p \in Callers :
        (Returned(p) /\ Local(p) /\ did[p].leftover)
            => /\ outcome[p] # "FileExistsError"
               /\ outcome[p] = "Reused" => Complete(fs[Target(p)])

\* C10: when some declared split, at any position, is named "all", the
\* generation strategy has run for no split and the call has written no
\* artifact.
C10_ReservedNameBeforeAnyRun ==
    \A p \in Callers :
        (\E n \in Names(gen[p].split_generators) : IsReserved(n))
            => /\ did[p].ran = <<>>
               /\ \A d \in DOMAIN fs : \A a \in fs[d].arts : a[2] # call[p].id

\* C3: a call that finds the target slot existing, in mode reuse-if-exists
\* (the default), returns at once as a cache hit and changes nothing: the
\* file system, the in-memory DatasetInfo and the cache directory are as
\* before, and the call has invoked no fetch, staging, split declaration,
\* generation or verification.
C3_ReuseChangesNothing ==
    [][\A p \in Callers :
          (pc[p] = "idle" /\ call'[p].id # call[p].id
              /\ fs[Target(p)].exists
              /\ call'[p].mode = REUSE_DATASET_IF_EXISTS)
              => /\ pc'[p] = "idle"
                 /\ outcome'[p] = "Reused"
                 /\ fs' = fs
                 /\ info' = info
                 /\ cache_dir' = cache_dir
                 /\ did'[p] = Fresh(TRUE, fs[Staging(p)].exists)]_vars

\* C3 happens: a second call reuses a slot an earlier call fully wrote.
C3_Witness ==
    \E p \in Callers :
        /\ Returned(p) /\ outcome[p] = "Reused" /\ call[p].id >= 2
        /\ Complete(fs[Target(p)])

NoRepeat(seq) ==
    \A i \in 1..Len(seq) : \A j \in 1..Len(seq) : seq[i] = seq[j] => i = j

\* C5: for a local target, a call in which a step inside the staging scope
\* raised returns with the staging directory gone and with that same error;
\* and no call invokes the split declaration, or the generation of one split,
\* more than once.
C5_FailureDiscardsStaging ==
    \A p \in Callers :
        /\ did[p].declared <= 1
        /\ NoRepeat(did[p].ran)
        /\ (Returned(p) /\ Local(p) /\ did[p].raised # "none")
              => /\ ~fs[Staging(p)].exists
                 /\ outcome[p] = did[p].raised

\* C5 happens: a split's generation raised after the staging directory held
\* an artifact, and the error has reached the caller.
C5_Witness ==
    \E p \in Callers :
        /\ Returned(p) /\ Local(p)
        /\ did[p].staged /\ Len(did[p].ran) = 2
        /\ did[p].raised = "SourceDataMissing"
        /\ outcome[p] = "SourceDataMissing"

\* C6: for a local target, the rename of the commit step finds the old target
\* deleted, and a call that ends normally after local generation leaves the
\* target holding exactly what this call wrote into staging (its artifacts and
\* its metadata, nothing older), no staging directory, and the builder's cache
\* directory denoting the target again.
C6_CommitReplacesTarget ==
    \A p \in Callers :
        Local(p) =>
            /\ pc[p] = "commit_rename" => ~fs[Target(p)].exists
            /\ (Returned(p) /\ outcome[p] = "Prepared")
                  => /\ fs[Target(p)].exists
                     /\ fs[Target(p)].arts =
                            {<<n, call[p].id>> :
                                n \in Names(gen[p].split_generators)}
                     /\ fs[Target(p)].meta =
                            Some([info |-> info[p], by |-> call[p].id])
                     /\ ~fs[Staging(p)].exists
                     /\ cache_dir[p] = "target"

\* C6 happens: a commit has replaced a target that held older artifacts.
C6_Witness ==
    \E p \in Callers :
        /\ Returned(p) /\ Local(p) /\ outcome[p] = "Prepared"
        /\ did[p].started_exists /\ did[p].replaced

\* C8: when the prebuilt attempt is enabled and the registry holds the
\* artifact, the attempt ends the call: the fetched metadata is merged into
\* the DatasetInfo, no staging directory is created, and neither the split
\* declaration, nor a generation run, nor a verification has been invoked.
C8_PrebuiltEndsCall ==
    [][\A p \in Callers :
          (pc[p] = "try_from_hf_gcs" /\ pc'[p] # pc[p]
              /\ outcome'[p] # "Killed"
              /\ call[p].try_from_hf_gcs /\ hf_gcs[slot[p]])
              => /\ pc'[p] = "idle"
                 /\ outcome'[p] = "Prebuilt"
                 /\ info'[p] = Update(info[p], PrebuiltInfo)
                 /\ fs'[Staging(p)] = fs[Staging(p)]
                 /\ ~did'[p].staged
                 /\ did'[p].declared = 0
                 /\ did'[p].ran = <<>>
                 /\ ~did'[p].verified]_vars

\* C8 happens: a call has ended with the prebuilt artifact, whose metadata
\* replaced the builder's empty DatasetInfo.
C8_Witness ==
    \E p \in Callers :
        /\ Returned(p) /\ outcome[p] = "Prebuilt"
        /\ exported = EmptyInfo /\ info[p] = PrebuiltInfo
        /\ Complete(fs[Target(p)])

\* C9: when the prebuilt attempt does not find the artifact, no error
\* surfaces and the call goes on to local generation from the very state a
\* call with the attempt disabled goes on from (apart from the record that a
\* fetch was tried): file system, DatasetInfo and cache directory untouched.
C9_NotFoundFallsThrough ==
    [][\A p \in Callers :
          (pc[p] = "try_from_hf_gcs" /\ pc'[p] # pc[p]
              /\ outcome'[p] # "Killed"
              /\ (~call[p].try_from_hf_gcs \/ ~hf_gcs[slot[p]]))
              => /\ pc'[p] = "incomplete_dir"
                 /\ outcome'[p] = outcome[p]
                 /\ exc'[p] = "none"
                 /\ fs' = fs
                 /\ info' = info
                 /\ cache_dir' = cache_dir
                 /\ gen' = gen
                 /\ [did'[p] EXCEPT !.fetched = FALSE]
                        = [did[p] EXCEPT !.fetched = FALSE]]_vars

\* C9 happens: a call whose prebuilt attempt found nothing has generated and
\* committed locally.
C9_Witness ==
    \E p \in Callers :
        /\ Returned(p) /\ outcome[p] = "Prepared"
        /\ call[p].try_from_hf_gcs /\ did[p].fetched /\ ~hf_gcs[slot[p]]

\* The target slot holds nothing the current call of p wrote.
Uncommitted(p) ==
    /\ \A a \in fs[Target(p)].arts : a[2] # call[p].id
    /\ fs[Target(p)].meta # None => fs[Target(p)].meta[1].by # call[p].id

\* C11: a split whose producer yielded two records under the same key is
\* not written to its end: its run raises DuplicateKey, and (for a local
\* target) the slot holds nothing of the call.
C11_DuplicateKeyFails ==
    \A p \in Callers :
        (\E i \in 1..Len(did[p].yielded) : ~NoRepeat(did[p].yielded[i]))
            => /\ did[p].raised = "DuplicateKey"
               /\ Local(p) => Uncommitted(p)

\* C12: a split whose SplitGenerator expects a number of examples and whose
\* producer yielded another number is not written to its end: its run raises
\* ResultCountMismatch.
C12_CountMismatchFails ==
    \A p \in Callers :
        (\E i \in 1..Len(did[p].yielded) :
            did[p].expected > 0 /\ Len(did[p].yielded[i]) # did[p].expected)
            => did[p].raised = "ResultCountMismatch"

Discrepancy(a, b) ==
    \/ Names(a) # Names(b)
    \/ \E i \in 1..Len(a), j \in 1..Len(b) :
          a[i].name = b[j].name /\ a[i].num_examples # b[j].num_examples

Persisted(p) == fs[Target(p)].meta[1].info

\* C15: after a call that generated locally and ended normally, the persisted
\* DatasetInfo has dataset_size = the sum of its splits' num_bytes (the bytes
\* written for the records yielded), download_size = the size the download
\* manager reported in this call, and size_in_bytes = their sum.
C15_SizesAddUp ==
    \A p \in Callers :
        (Returned(p) /\ outcome[p] = "Prepared")
            => /\ fs[Target(p)].meta # None
               /\ Persisted(p).splits # None
               /\ Persisted(p).dataset_size =
                      Some(Total([i \in 1..Len(Persisted(p).splits[1]) |->
                                     Persisted(p).splits[1][i].num_bytes]))
               /\ Persisted(p).dataset_size =
                      Some(Total([i \in 1..Len(did[p].yielded) |->
                                     Finalize(did[p].yielded[i]).num_bytes]))
               /\ Persisted(p).download_size = did[p].downloaded_size
               /\ Persisted(p).download_size # None
               /\ Persisted(p).size_in_bytes =
                      Some(Persisted(p).dataset_size[1]
                               + Persisted(p).download_size[1])

\* C15 happens: a call has persisted sizes with a download of one byte and
\* two splits of different sizes.
C15_Witness ==
    \E p \in Callers :
        /\ Returned(p) /\ outcome[p] = "Prepared"
        /\ did[p].downloaded_size = Some(1)
        /\ Len(did[p].yielded) = 2
        /\ Finalize(did[p].yielded[1]).num_bytes
               > Finalize(did[p].yielded[2]).num_bytes
        /\ Finalize(did[p].yielded[2]).num_bytes > 0

\* C16: after a call that generated locally and ended normally, the persisted
\* split table has one entry per declared split, in the order of the
\* declaration, each with the number of records its producer yielded, and
\* the slot holds exactly one artifact per declared split, written by this
\* call.
C16_SplitTableMatchesRuns ==
    \A p \in Callers :
        (Returned(p) /\ outcome[p] = "Prepared")
            => /\ fs[Target(p)].meta # None
               /\ Persisted(p).splits # None
               /\ Len(Persisted(p).splits[1]) = Len(gen[p].split_generators)
               /\ Len(did[p].yielded) = Len(gen[p].split_generators)
               /\ \A i \in 1..Len(gen[p].split_generators) :
                     /\ Persisted(p).splits[1][i].name =
                            gen[p].split_generators[i].name
                     /\ Persisted(p).splits[1][i].num_examples =
                            Len(did[p].yielded[i])
               /\ fs[Target(p)].arts =
                      {<<n, call[p].id>> :
                          n \in Names(gen[p].split_generators)}
               /\ Cardinality(fs[Target(p)].arts) =
                      Len(gen[p].split_generators)

\* C16 happens: a call has committed train with two records and test with
\* one.
C16_Witness ==
    \E p \in Callers :
        /\ Returned(p) /\ outcome[p] = "Prepared"
        /\ Len(Persisted(p).splits[1]) = 2
        /\ Persisted(p).splits[1][1] = SplitInfo("train", 2, 4)
        /\ Persisted(p).splits[1][2] = SplitInfo("test", 1, 1)
        /\ fs[Target(p)].arts =
               {<<"train", call[p].id>>, <<"test", call[p].id>>}

\* A construction has been attempted: config and asked describe the last.
Resolved == nbuilders > 0

\* The name asked for is a name, and no declared config carries it.
Unknown ==
    /\ asked.name # None
    /\ \A i \in 1..Len(asked.before) : asked.before[i].name # asked.name

\* What the override rule gives for the last construction on top of base.
Overridden(base) ==
    [key \in DOMAIN base |->
        IF key \in DOMAIN asked.config_kwargs
              /\ asked.config_kwargs[key] # None
        THEN asked.config_kwargs[key] ELSE base[key]]

\* The defaults of a config synthesized for the last construction.
SynthesizedDefaults ==
    BuilderConfig(IF asked.name # None THEN asked.name ELSE Some("default"),
                  IF Truthy(VERSION) THEN VERSION ELSE Some("0.0.0"),
                  None)

\* C17 as stated: a name that matches no declared config fails with
\* ConfigNotFound when the type declares a config, and yields a fresh config
\* with that name and the overrides when the type declares none.
C17_UnknownName ==
    (Resolved /\ Unknown)
        => IF asked.before # <<>>
           THEN config.status = "ConfigNotFound"
           ELSE /\ config.status = "ok"
                /\ config.ref = 0
                /\ config.value = Some(Overridden(SynthesizedDefaults))

\* C17 amended: a name that matches no declared config fails, and makes no
\* config, when the type declares a config: with ConfigNotFound if the
\* declared names are distinct, with ConfigDuplicate if they are not; when
\* the type declares none, a fresh config with that name and the overrides is
\* made, and returned unless the name is empty (InvalidConfig).
C17_UnknownNameDistinct ==
    (Resolved /\ Unknown)
        => IF asked.before # <<>>
           THEN /\ config.status =
                       IF Duplicated(asked.before) THEN "ConfigDuplicate"
                       ELSE "ConfigNotFound"
                /\ config.value = None
                /\ BUILDER_CONFIGS = asked.before
           ELSE /\ config.status =
                       IF Truthy(asked.name) THEN "ok" ELSE "InvalidConfig"
                /\ config.ref = 0
                /\ config.value = Some(Overridden(SynthesizedDefaults))

\* C17 happens: the name "zz" was asked of a type declaring "a" and "b".
C17_Witness ==
    /\ Resolved /\ Unknown
    /\ asked.name = Some("zz") /\ Len(asked.before) = 2
    /\ config.status = "ConfigNotFound"

C19_DuplicateFailsAtDeclaration ==
    ~(declared /\ Duplicated(BUILDER_CONFIGS))

\* C19 amended: a type whose declared configs share a name is declared
\* without an error; every construction of a builder of it fails, with
\* ConfigDuplicate when builder_configs is first read (with InvalidConfig
\* before that, when no name is given and the first declared config has an
\* empty name), and nothing is memoized.
C19_DuplicateFailsAtResolution ==
    /\ (declared /\ nbuilders = 0) => (config = NoConfig /\ memo = None)
    /\ (Resolved /\ Duplicated(asked.before))
          => /\ config.status \in {"ConfigDuplicate", "InvalidConfig"}
             /\ config.status = "InvalidConfig" <=>
                    (asked.name = None /\ ~Truthy(asked.before[1].name))
             /\ memo = None

\* C19 happens: a construction without a name, on a declared type with two
\* configs named alike, has failed with ConfigDuplicate.
C19_Witness ==
    /\ Resolved /\ Duplicated(asked.before)
    /\ asked.name = None /\ config.status = "ConfigDuplicate"

\* C20: whenever a construction has selected or made a config, each of its
\* fields is the override when a non-null one is supplied for it, and else
\* the field of the declared config selected (as it was before the
\* construction) or the default of a synthesized config; a null override
\* changes nothing.
C20_OverridesOnTop ==
    (Resolved /\ config.value # None)
        => config.value =
               Some(Overridden(IF config.ref > 0
                               THEN asked.before[config.ref]
                               ELSE SynthesizedDefaults))

\* C20 happens: a declared config was selected with a null version and a
\* data_dir supplied, and a synthesized one with a null version.
C20_Witness ==
    /\ Resolved /\ config.status = "ok" /\ config.ref > 0
    /\ asked.config_kwargs = [version |-> None, data_dir |-> Some("/data")]
    /\ config.value[1].version = asked.before[config.ref].version
    /\ config.value[1].data_dir = Some("/data")

\* C21: every builder's config has the fields it had when the builder was
\* constructed (so its config_name and version are those of its
\* construction), whatever builders were constructed after it; and a
\* construction leaves the declared configs of the type as they were.
C21_ConfigFixedAtConstruction ==
    /\ \A i \in 1..Len(builders) :
          ConfigOf(builders[i], BUILDER_CONFIGS) = builders[i].constructed
    /\ Resolved => BUILDER_CONFIGS = asked.before

\* The builder of the behaviour is a BeamBasedBuilder constructed without a
\* beam_runner and without beam_options.
NoExecutionTarget ==
    /\ inputs.builder = BeamBasedBuilder
    /\ ~inputs.beam_runner /\ ~inputs.beam_options

\* The ways a call ends before local generation is entered.
EndedBeforeGeneration ==
    { "Reused", "CacheCollision", "InsufficientDiskSpace", "Prebuilt",
      "FileExistsError" }

\* C22: a BeamBasedBuilder constructed with neither a runner nor pipeline
\* options fails local generation with MissingExecutionTarget: the step that
\* enters generation raises it, no split declaration is ever invoked, no
\* split is added to a pipeline, the error reaches the caller and the slot
\* holds nothing of the call.
C22_MissingExecutionTarget ==
    /\ [][\A p \in Callers :
             (NoExecutionTarget /\ pc[p] = "split_generators"
                 /\ pc'[p] # pc[p] /\ outcome'[p] # "Killed")
                 => did'[p].raised = "MissingExecutionTarget"]_vars
    /\ [](\A p \in Callers :
             (NoExecutionTarget /\ call[p].id > 0)
                 => /\ did[p].declared = 0
                    /\ did[p].ran = <<>>
                    /\ gen[p].pipeline = "none"
                    /\ gen[p].beam_writers = <<>>
                    /\ Uncommitted(p)
                    /\ Returned(p) =>
                           outcome[p] \in EndedBeforeGeneration
                                            \cup {"MissingExecutionTarget"})

\* C22 happens: a call of such a builder has entered local generation, with
\* its staging directory created, and has ended with the error.
C22_Witness ==
    \E p \in Callers :
        /\ NoExecutionTarget /\ Returned(p) /\ Local(p)
        /\ did[p].staged /\ outcome[p] = "MissingExecutionTarget"

\* The states of the pipeline of a call, in the order they are taken.
PipelineOrder ==
    { <<"none", "built">>, <<"built", "running">>,
      <<"running", "finished">>, <<"finished", "finalized">> }

\* The call of p runs, or has returned, in a BeamBasedBuilder.
Beam(p) ==
    /\ inputs.builder = BeamBasedBuilder
    /\ pc[p] # "idle" \/ Returned(p)

\* Every SplitInfo of the call is as its split generator made it: no count
\* of the job has been set on it.
CountsUnset(p) ==
    /\ \A i \in 1..Len(gen[p].split_generators) :
          gen[p].split_generators[i] =
              Stub(gen[p].split_generators[i].name, did[p].expected)
    /\ did[p].downloaded_size # None
           => info[p].splits = Some(gen[p].split_generators)

\* Every SplitInfo of the call, in self.info too, has the counts the job's
\* metrics give for its split.
CountsSet(p) ==
    /\ \A i \in 1..Len(gen[p].split_generators) :
          gen[p].split_generators[i] =
              Written(gen[p].split_generators[i], gen[p].metrics[i])
    /\ info[p].splits = Some(gen[p].split_generators)

\* The call of p has saved its metadata or is committing its staging
\* directory.
Persisting(p) ==
    \/ pc[p] \in {"commit_rmtree", "commit_rename"}
    \/ \E d \in {Target(p), Staging(p)} :
          fs[d].meta # None /\ fs[d].meta[1].by = call[p].id

\* C23: in a prepare of a BeamBasedBuilder the pipeline goes through its
\* states in order (built, job submitted, job finished, counts set); the job
\* is submitted once every declared split has been added to the pipeline;
\* until the job has finished and its metrics are read no SplitInfo has a
\* count of the job, and afterwards each has the counts of its split; and
\* the sizes are aggregated, the metadata saved and the slot committed only
\* with the counts set, the saved sizes being those of the counts.
C23_OneJobThenCounts ==
    /\ [][\A p \in Callers :
             gen'[p].pipeline # gen[p].pipeline
                 => \/ <<gen[p].pipeline, gen'[p].pipeline>> \in PipelineOrder
                    \/ gen'[p].pipeline = "none" /\ pc[p] = "idle"]_vars
    /\ [](\A p \in Callers :
             Beam(p)
                 => /\ gen[p].pipeline \in {"running", "finished", "finalized"}
                       => /\ gen[p].idx > Len(gen[p].split_generators)
                          /\ gen[p].beam_writers =
                                 [i \in 1..Len(gen[p].split_generators) |->
                                     gen[p].split_generators[i].name]
                    /\ gen[p].pipeline # "finalized" => CountsUnset(p)
                    /\ gen[p].pipeline = "finalized" => CountsSet(p)
                    /\ Persisting(p)
                       => /\ gen[p].pipeline = "finalized"
                          /\ info[p].dataset_size =
                                 Some(DatasetSize(gen[p].split_generators))
                    /\ (Returned(p) /\ outcome[p] = "Prepared")
                       => gen[p].pipeline = "finalized")

\* C23 happens: a BeamBasedBuilder has prepared two splits on a local
\* target and committed them with the counts of the job.
C23_Witness ==
    \E p \in Callers :
        /\ Beam(p) /\ Local(p) /\ Returned(p) /\ outcome[p] = "Prepared"
        /\ Len(gen[p].split_generators) = 2
        /\ gen[p].split_generators[1].num_examples = 2
        /\ gen[p].split_generators[2].num_examples = 1
        /\ Complete(fs[Target(p)])
        /\ fs[Target(p)].meta[1].by = call[p].id

\* C28: a BeamBasedBuilder runs neither the verification of the checksums
\* nor that of the splits, whatever flag the caller passes: no call of it
\* verifies or raises ChecksumMismatch or SplitMismatch, the step that
\* records checksums other than the info's goes on to the splits, and the
\* step that ends generation with splits other than the info's goes on to
\* save the info.
C28_BeamNeverVerifies ==
    /\ [][\A p \in Callers :
             (Beam(p) /\ outcome'[p] # "Killed" /\ call[p].verify_infos)
                 => /\ (pc[p] = "split_generators"
                           /\ gen'[p].recorded # None
                           /\ info[p].download_checksums
                                  \notin {None, gen'[p].recorded})
                       => pc'[p] = "prepare_split"
                    /\ (pc[p] = "prepare_split"
                           /\ gen[p].pipeline = "finalized"
                           /\ exported.splits # None
                           /\ Discrepancy(exported.splits[1],
                                          gen[p].split_generators))
                       => did'[p].raised \in {"none", "SaveInfoError"}]_vars
    /\ [](\A p \in Callers :
             Beam(p)
                 => /\ ~did[p].verified
                    /\ did[p].raised
                           \notin {"ChecksumMismatch", "SplitMismatch"}
                    /\ Returned(p) =>
                           outcome[p]
                               \notin {"ChecksumMismatch", "SplitMismatch"})

\* C28 happens: a call with verification asked for has committed, although
\* the checksums it recorded and the splits it made differ from the info's.
C28_Witness ==
    \E p \in Callers :
        /\ Beam(p) /\ Local(p) /\ Returned(p) /\ outcome[p] = "Prepared"
        /\ call[p].verify_infos
        /\ exported.download_checksums \notin {None, gen[p].recorded}
        /\ exported.splits # None
        /\ Discrepancy(exported.splits[1], gen[p].split_generators)
        /\ fs[Target(p)].meta # None
        /\ fs[Target(p)].meta[1].by = call[p].id

\* C25: a call that ends as a cache hit, without generating or fetching,
\* was preceded by a call for the same identity that prepared the dataset or
\* fetched the prebuilt one.
C25_ReuseOnlyAfterSuccess ==
    \A p \in Callers :
        (Returned(p) /\ outcome[p] = "Reused") => succeeded[slot[p]]

\* The call of p regenerates over a committed slot in reuse-cache mode and
\* is at a step before the commit step, or past it: the prebuilt dataset is
\* not fetched.
Regenerating(p) ==
    /\ call[p].mode = REUSE_CACHE_IF_EXISTS
    /\ Complete(fs[Target(p)])
    /\ pc[p] \in {"makedirs", "try_from_hf_gcs", "incomplete_dir",
                  "split_generators", "prepare_split", "cleanup"}
    /\ ~(call[p].try_from_hf_gcs /\ hf_gcs[slot[p]])

\* The regeneration of p has failed after it had entered the staging scope.
RegenerationFailed(p) ==
    /\ Returned(p) /\ call[p].mode = REUSE_CACHE_IF_EXISTS
    /\ did[p].started_exists /\ did[p].declared > 0
    /\ outcome[p] \in GenerationFailures

\* C26 as stated: no step of a regeneration over a committed slot, other
\* than the commit step, changes the slot, and a regeneration that fails has
\* left nothing of its own in the slot.
C26_RegenerationStaged ==
    /\ [][\A p \in Callers :
             Regenerating(p) => fs'[Target(p)] = fs[Target(p)]]_vars
    /\ [](\A p \in Callers :
             RegenerationFailed(p) => ~did[p].replaced /\ Uncommitted(p))

\* C26 for a local target: no step of a regeneration over a committed slot,
\* other than the commit step, changes the slot, and a regeneration that
\* fails has not reached the commit step and has left nothing in the slot.
C26_LocalRegenerationStaged ==
    /\ [][\A p \in Callers :
             (Local(p) /\ Regenerating(p))
                 => fs'[Target(p)] = fs[Target(p)]]_vars
    /\ [](\A p \in Callers :
             (Local(p) /\ RegenerationFailed(p))
                 => ~did[p].replaced /\ Uncommitted(p))

\* C26 happens: a regeneration over a committed local slot has written a
\* split to its staging directory and then failed; the slot is still the
\* complete one of an earlier call.
C26_Witness ==
    \E p \in Callers :
        /\ Local(p) /\ RegenerationFailed(p)
        /\ did[p].staged /\ did[p].yielded # <<>>
        /\ Complete(fs[Target(p)])
        /\ fs[Target(p)].meta[1].by \notin {0, call[p].id}

\* The files of directory d by name: its splits, and whether it has the
\* metadata.
Files(d) == [splits |-> {f[1] : f \in d.arts}, meta |-> d.meta # None]

\* C27: on a remote target no staging directory is ever made and
\* self._cache_dir stays the target; a split that is generated is written
\* into the target; a call ends as prepared with its metadata in the target
\* and without a rename or a cleanup step; no step removes a file from the
\* target, and the step that raises leaves the file system as it is.
C27_RemoteStagesAtTarget ==
    /\ [][\A p \in Callers :
             remote[slot[p]]
                 => /\ fs'[Target(p)].exists \/ ~fs[Target(p)].exists
                    /\ Files(fs[Target(p)]).splits
                           \subseteq Files(fs'[Target(p)]).splits
                    /\ Files(fs[Target(p)]).meta
                           => Files(fs'[Target(p)]).meta
                    /\ (did'[p].yielded # did[p].yielded
                           /\ did'[p].yielded # <<>>)
                       => \E f \in fs'[Target(p)].arts : f[2] = call[p].id
                    /\ (did'[p].raised # did[p].raised
                           /\ did'[p].raised # "none")
                       => fs' = fs /\ outcome'[p] = did'[p].raised]_vars
    /\ [](\A p \in Callers :
             remote[slot[p]]
                 => /\ ~fs[Staging(p)].exists
                    /\ cache_dir[p] = "target"
                    /\ pc[p] \notin {"commit_rmtree", "commit_rename",
                                     "cleanup"}
                    /\ (Returned(p) /\ outcome[p] = "Prepared")
                       => /\ fs[Target(p)].meta # None
                          /\ fs[Target(p)].meta[1].by = call[p].id)

\* C27 happens: on a remote target a call has written a split and then
\* failed; what it wrote is in the target.
C27_Witness ==
    \E p \in Callers :
        /\ remote[slot[p]] /\ Returned(p)
        /\ outcome[p] \in GenerationFailures
        /\ did[p].yielded # <<>>
        /\ \E f \in fs[Target(p)].arts : f[2] = call[p].id
        /\ fs[Target(p)].meta = None

\* The state of the call and of the builder of p.
Own(p) ==
    << pc[p], cache_dir[p], info[p], call[p], gen[p], exc[p], outcome[p],
       did[p] >>

\* The paths of the slot of identity i.
Paths(i) == << fs[<<i, "target">>], fs[<<i, "staging">>] >>

\* C24: with two callers preparing different identities, every step is the
\* step of one of them: it leaves the other's call and builder as they are
\* and creates, deletes or renames nothing under the other's slot; each
\* staging path belongs to one slot; no call ends with an error that only
\* another call can bring about (a staging directory already there, a
\* rename refused); and a call that prepares leaves in its slot exactly what
\* it has written, with its staging directory gone, as it does alone (C6).
C24_DifferentIdentitiesApart ==
    /\ [][\E p \in Callers :
             \A q \in Callers \ {p} :
                 /\ Own(q)' = Own(q)
                 /\ slot[q] # slot[p] => Paths(slot[q])' = Paths(slot[q])
                 /\ succeeded'[slot[q]] = succeeded[slot[q]]]_vars
    /\ [](\A p \in Callers :
             /\ \A q \in Callers \ {p} :
                    /\ Staging(p) # Staging(q)
                    /\ Staging(p)[1] = slot[p]
             /\ Returned(p)
                    => outcome[p] \notin {"FileExistsError", "RenameError"}
             /\ pc[p] \in {"split_generators", "prepare_split",
                           "commit_rmtree", "commit_rename"}
                    => /\ fs[<<slot[p], "staging">>].exists
                       /\ \A f \in fs[<<slot[p], "staging">>].arts :
                              f[2] = call[p].id
             /\ (Returned(p) /\ outcome[p] = "Prepared")
                    => /\ Complete(fs[Target(p)])
                       /\ fs[Target(p)].meta[1].by = call[p].id
                       /\ \A f \in fs[Target(p)].arts : f[2] = call[p].id
                       /\ ~fs[<<slot[p], "staging">>].exists)

\* C24 happens: the two callers are both about to rename their staging
\* directories, each holding what its own call has written.
C24_Witness ==
    /\ slot["c1"] # slot["c2"]
    /\ \A p \in Callers :
          /\ pc[p] = "commit_rename"
          /\ fs[Staging(p)].meta # None
          /\ fs[Staging(p)].meta[1].by = call[p].id

\* The call of p has created the staging directory and has neither renamed
\* nor removed it yet.
Holds(p) ==
    \/ pc[p] \in {"split_generators", "prepare_split", "commit_rmtree",
                  "commit_rename"}
    \/ pc[p] = "cleanup" /\ exc[p] # "none"

\* C29 (mutual exclusion): two calls for one identity never hold the
\* staging directory at the same time.
C29_OneHolder ==
    \A p \in Callers : \A q \in Callers \ {p} :
        slot[p] = slot[q] => ~(Holds(p) /\ Holds(q))

\* C29 (the call that loses): a call that finds the staging directory
\* present raises on its creation and changes nothing in the file system.
C29_LoserTouchesNothing ==
    [][\A p \in Callers :
          (pc[p] = "incomplete_dir" /\ pc'[p] # pc[p]
              /\ fs[Staging(p)].exists)
              => fs' = fs /\ outcome'[p] = "FileExistsError"]_vars

\* C29 (the call that holds): its staging directory is there with nothing
\* but its own files until it renames or removes it, and its rename is
\* never refused.
C29_HolderUndisturbed ==
    \A p \in Callers :
        /\ Holds(p)
              => /\ fs[Staging(p)].exists
                 /\ \A f \in fs[Staging(p)].arts : f[2] = call[p].id
        /\ exc[p] # "RenameError" /\ outcome[p] # "RenameError"

\* C29: when two calls for one identity race, at most one holds the staging
\* directory at a time; the one that finds it present fails on its creation
\* and leaves the file system as it is; so the one that holds it keeps it,
\* with its own files only, and its commit goes through.
C29_RaceKeepsHolder ==
    /\ C29_LoserTouchesNothing
    /\ [](C29_OneHolder /\ C29_HolderUndisturbed)

=============================================================================
